---- MODULE Spec2Model ----
\* Correlation & risk-fusion pipeline of aita-threat-analyzer.
\* This part models backend/app/correlation/log_correlator.py: the batch run
\* process_pending_logs, correlate_log and the scoring helpers.
EXTENDS Integers, Sequences, FiniteSets, TLC

VARIABLES
    pending_logs,        \* rows returned by _get_pending_logs (the unprocessed log events)
    threats,             \* rows returned by _get_relevant_threats (candidate list, in order)
    now,                 \* datetime.utcnow(), in hours
    pc,                  \* position of the batch run
    i,                   \* index of log_entry in the for loop of process_pending_logs
    j,                   \* index of threat in the for loop of correlate_log
    log_entry,           \* correlate_log: row returned by _get_log_entry, <<>> for None
    best_correlation,    \* correlate_log local, <<>> for None
    best_score,          \* correlate_log local
    scored,              \* scores computed by the current correlate_log call, in candidate order
    correlation,         \* process_pending_logs local: value returned by correlate_log
    correlations_found,  \* process_pending_logs local
    alerts_generated,    \* process_pending_logs local
    updates,             \* calls made to _update_log_correlation
    alerts,              \* calls made to _generate_alert
    handled,             \* per finished loop iteration: the log id and what correlate_log returned
    result,              \* value returned by process_pending_logs, <<>> before it returns
    error,               \* exception process_pending_logs raised to its caller, "" for none
    task,                \* the Celery task that was dispatched
    task_pc,             \* position of the dispatch
    retries,             \* self.request.retries
    attempts,            \* executions of the task body in this dispatch
    retry_requests,      \* the self.retry calls made, with their arguments
    batch_called,        \* executions of the task body in which the correlator call returned
    task_result,         \* value the task returned to the scheduler, <<>> for none
    scorer_model,        \* RiskScorer.model of the shared instance
    scorer_disk,         \* models/risk_scorer.joblib exists
    classifier_model,    \* ThreatClassifier.model of the shared instance
    classifier_disk,     \* models/threat_classifier.joblib exists
    ml_out,              \* outcome of the last score_threat / classify_threat call
    threat_text,         \* the text handed to _extract_iocs
    iocs,                \* value returned by _extract_iocs, <<>> before the call
    spacy_env,           \* what spacy.load / spacy.blank do on this host
    doc_ents,            \* the entities the installed language model finds in threat_text
    nlp,                 \* EntityExtractor.nlp of the instance
    extraction,          \* value returned by the last extract_from_threat, <<>> before
    previous,            \* value returned by the extract_from_threat before that one
    runs,                \* extract_from_threat calls made on threat_text
    conf_args,           \* the arguments of a _calculate_confidence call
    confidence,          \* the value it returned, <<>> before
    calls,               \* concurrent score_threat / classify_threat calls on shared instances
    loads,               \* successful joblib.load calls of each method
    db_threats,          \* the stored ThreatIntelligence rows, by id
    api_response,        \* status of the last create_threat / update_threat
    calls_per_minute,    \* self.calls_per_minute of the RateLimitMiddleware
    time_s,              \* int(time.time())
    zsets,               \* Redis sorted sets rate_limit:<client_ip>, as sets of times
    expires,             \* expiry time of each of these keys
    responses            \* the requests the middleware handled and what it answered

batch_vars == <<pending_logs, threats, now, pc, i, j, log_entry, best_correlation, best_score,
                scored, correlation, correlations_found, alerts_generated, updates, alerts,
                handled, result, error>>

task_vars == <<task, task_pc, retries, attempts, retry_requests, batch_called, task_result>>

ml_vars == <<scorer_model, scorer_disk, classifier_model, classifier_disk, ml_out>>

nlp_vars == <<threat_text, iocs, spacy_env, doc_ents, nlp, extraction, previous, runs,
              conf_args, confidence>>

call_vars == <<calls, loads>>

store_vars == <<db_threats, api_response>>

rate_vars == <<calls_per_minute, time_s, zsets, expires, responses>>

vars == <<batch_vars, task_vars, ml_vars, nlp_vars, call_vars, store_vars, rate_vars>>

-----------------------------------------------------------------------------
\* Python floats are IEEE-754 binary64.  Every value the correlator handles is
\* a non-negative multiple of 2^-57 below 2, kept here as two 29-bit limbs:
\* value = (hi * 2^29 + lo) * 2^-57.  FAdd is binary64 addition, rounding to
\* nearest with ties to even.

Limb == 2^29

F64(h, l) == [hi |-> h, lo |-> l]

F0_0  == F64(0, 0)
F0_05 == F64(13421772, 429496730)
F0_1  == F64(26843545, 322122548)
F0_15 == F64(40265318, 214748364)
F0_2  == F64(53687091, 107374184)
F0_3  == F64(80530636, 429496728)
F0_4  == F64(107374182, 214748368)
F0_5  == F64(134217728, 0)
F0_7  == F64(187904819, 107374176)
F0_8  == F64(214748364, 429496736)
F1_0  == F64(2^28, 0)

\* spacing of binary64 values in the binade of a value with high limb h, in units of 2^-57
Ulp(h) ==
    IF h >= 2^28 THEN 32
    ELSE IF h >= 2^27 THEN 16
    ELSE IF h >= 2^26 THEN 8
    ELSE IF h >= 2^25 THEN 4
    ELSE IF h >= 2^24 THEN 2
    ELSE 1

FAdd(a, b) ==
    LET s    == a.lo + b.lo
        l    == s % Limb
        h    == a.hi + b.hi + (s \div Limb)
        u    == Ulp(h)
        r    == l % u
        down == l - r
        up   == (2 * r > u) \/ (2 * r = u /\ (down \div u) % 2 = 1)
        l2   == IF up THEN down + u ELSE down
    IN  F64(h + (l2 \div Limb), l2 % Limb)

FGt(a, b) == a.hi > b.hi \/ (a.hi = b.hi /\ a.lo > b.lo)

FLe(a, b) == ~FGt(a, b)

\* Python min(a, b): b only when b < a
FMin(a, b) == IF FGt(a, b) THEN b ELSE a

-----------------------------------------------------------------------------
\* Rows.  A log field that is missing or None is the string None (both read
\* as None through dict.get); a missing, None or empty url is the empty
\* sequence (all three are falsy and the url is read nowhere else).  A threat
\* field is Absent (key missing), Null (key present, value None) or Val(v).
\* A url is a sequence of characters, file_hashes a set of <<algorithm,
\* digest>> pairs with distinct algorithms.

None == "None"

\* threat['severity'] when the key is missing
NoKey == "<absent>"

Absent(e) == [st |-> "absent", v |-> e]
Null(e)   == [st |-> "null", v |-> e]
Val(x)    == [st |-> "set", v |-> x]

\* bool(threat.get(key)) for a collection-valued key
Truthy(f, empty) == f.st = "set" /\ f.v # empty

\* threat.get(key, default): the default only replaces a missing key
Get(f, default) == IF f.st = "absent" THEN default ELSE f.v

\* x in threat.get(key, []) raises TypeError when the value is None
\* (likewise threat.get('file_hashes', {}).values() raises AttributeError)
RaisesOnNone(f) == f.st = "null"

\* dict.values()
Values(d) == {p[2] : p \in d}

\* Python str.__contains__: s in t
IsSubstring(s, t) ==
    \E k \in 0..(Len(t) - Len(s)) : SubSeq(t, k + 1, k + Len(s)) = s

\* (datetime.utcnow() - discovered_date).days: timedelta.days floors
DaysOld(utcnow, discovered_date) == (utcnow - discovered_date) \div 24

correlation_threshold == F0_7

alert_threshold == F0_8

\* severity_boost.get(threat.get('severity', 'low'), 0.0)
severity_boost(threat) ==
    LET key == IF threat.severity = NoKey THEN "low" ELSE threat.severity
    IN  CASE key = "critical" -> F0_2
          [] key = "high"     -> F0_15
          [] key = "medium"   -> F0_1
          [] key = "low"      -> F0_05
          [] OTHER            -> F0_0

\* score_sum without the break of the URL loop: 0.3 for every threat URL found in the log URL
RECURSIVE AddPerUrl(_, _, _)
AddPerUrl(s, urls, url) ==
    IF urls = <<>> THEN s
    ELSE AddPerUrl(IF IsSubstring(Head(urls), url) THEN FAdd(s, F0_3) ELSE s, Tail(urls), url)

score_sum_no_break(le, threat, utcnow) ==
    LET s0 == F0_0
        s1 == IF le.source_ip # None /\ Truthy(threat.ip_addresses, {})
                 /\ le.source_ip \in threat.ip_addresses.v
              THEN FAdd(s0, F0_4) ELSE s0
        s2 == IF le.domain # None /\ Truthy(threat.domains, {})
                 /\ le.domain \in threat.domains.v
              THEN FAdd(s1, F0_3) ELSE s1
        s3 == IF le.url # <<>> /\ Truthy(threat.urls, <<>>)
              THEN AddPerUrl(s2, threat.urls.v, le.url) ELSE s2
        s4 == IF le.file_hash # None /\ Truthy(threat.file_hashes, {})
                 /\ le.file_hash \in Values(threat.file_hashes.v)
              THEN FAdd(s3, F0_5) ELSE s3
        s5 == IF threat.discovered_date # {}
              THEN LET days_old == DaysOld(utcnow, CHOOSE d \in threat.discovered_date : TRUE)
                   IN  IF days_old <= 7 THEN FAdd(s4, F0_1)
                       ELSE IF days_old <= 30 THEN FAdd(s4, F0_05)
                       ELSE s4
              ELSE s4
    IN  FAdd(s5, severity_boost(threat))

\* the body of _calculate_correlation_score before the final clamp
score_sum(le, threat, utcnow) ==
    LET s0 == F0_0
        s1 == IF le.source_ip # None /\ Truthy(threat.ip_addresses, {})
                 /\ le.source_ip \in threat.ip_addresses.v
              THEN FAdd(s0, F0_4) ELSE s0
        s2 == IF le.domain # None /\ Truthy(threat.domains, {})
                 /\ le.domain \in threat.domains.v
              THEN FAdd(s1, F0_3) ELSE s1
        s3 == IF le.url # <<>> /\ Truthy(threat.urls, <<>>)
                 /\ \E k \in 1..Len(threat.urls.v) : IsSubstring(threat.urls.v[k], le.url)
              THEN FAdd(s2, F0_3) ELSE s2
        s4 == IF le.file_hash # None /\ Truthy(threat.file_hashes, {})
                 /\ le.file_hash \in Values(threat.file_hashes.v)
              THEN FAdd(s3, F0_5) ELSE s3
        s5 == IF threat.discovered_date # {}
              THEN LET days_old == DaysOld(utcnow, CHOOSE d \in threat.discovered_date : TRUE)
                   IN  IF days_old <= 7 THEN FAdd(s4, F0_1)
                       ELSE IF days_old <= 30 THEN FAdd(s4, F0_05)
                       ELSE s4
              ELSE s4
    IN  FAdd(s5, severity_boost(threat))

\* _calculate_correlation_score returning the sum without min(1.0, score)
calculate_correlation_score_unclamped(le, threat, utcnow) ==
    score_sum(le, threat, utcnow)

calculate_correlation_score(le, threat, utcnow) ==
    FMin(F1_0, score_sum(le, threat, utcnow))

\* _get_matched_indicators; f"IP: {value}" is the pair <<"IP", value>>
get_matched_indicators(le, threat) ==
    (IF le.source_ip \in Get(threat.ip_addresses, {})
        THEN << <<"IP", le.source_ip>> >> ELSE <<>>)
    \o (IF le.domain \in Get(threat.domains, {})
        THEN << <<"Domain", le.domain>> >> ELSE <<>>)
    \o (IF le.file_hash \in Values(Get(threat.file_hashes, {}))
        THEN << <<"Hash", le.file_hash>> >> ELSE <<>>)

\* _get_correlation_type testing the domain before the IP
get_correlation_type_domain_first(le, threat) ==
    IF le.domain \in Get(threat.domains, {}) THEN "domain_match"
    ELSE IF le.source_ip \in Get(threat.ip_addresses, {}) THEN "ip_match"
    ELSE IF le.file_hash \in Values(Get(threat.file_hashes, {})) THEN "hash_match"
    ELSE "pattern_match"

get_correlation_type(le, threat) ==
    IF le.source_ip \in Get(threat.ip_addresses, {}) THEN "ip_match"
    ELSE IF le.domain \in Get(threat.domains, {}) THEN "domain_match"
    ELSE IF le.file_hash \in Values(Get(threat.file_hashes, {})) THEN "hash_match"
    ELSE "pattern_match"

\* is_better with >= in place of >
is_better_ge(score, best) == ~FGt(best, score)

\* correlate_log: score > best_score
is_better(score, best) == FGt(score, best)

\* is_persisted with >= in place of >
is_persisted_ge(best, score) == best # <<>> /\ ~FGt(correlation_threshold, score)

\* correlate_log: best_correlation and best_score > self.correlation_threshold
is_persisted(best, score) == best # <<>> /\ FGt(score, correlation_threshold)

\* process_pending_logs: correlation and correlation['score'] > self.correlation_threshold
is_correlated(c) == c # <<>> /\ FGt(c[1].score, correlation_threshold)

\* is_alerted with >= in place of >
is_alerted_ge(c) == ~FGt(alert_threshold, c[1].score)

\* process_pending_logs: correlation['score'] > 0.8
is_alerted(c) == FGt(c[1].score, alert_threshold)

\* building best_correlation raises when a membership test meets a None field
CorrelationRaises(threat) ==
    \/ RaisesOnNone(threat.ip_addresses)
    \/ RaisesOnNone(threat.domains)
    \/ RaisesOnNone(threat.file_hashes)

-----------------------------------------------------------------------------
\* Bounds and the rows the runs are checked on.

MaxLogs == 2

MaxThreats == 2

MaxTicks == 1

IP1 == "203.0.113.42"
IP2 == "198.51.100.15"
D1  == "evil.example.com"
H1  == "d41d8cd98f00b204e9800998ecf8427e"
U1  == <<"/", "a", "b">>

LogRow(ip, dom, url, fh) ==
    [source_ip |-> ip, domain |-> dom, url |-> url, file_hash |-> fh]

ThreatRow(ips, doms, urls, fhs, disc, sev) ==
    [ip_addresses |-> ips, domains |-> doms, urls |-> urls, file_hashes |-> fhs,
     discovered_date |-> disc, severity |-> sev]

Severities == {NoKey, None, "critical", "high", "medium", "low", "unknown"}

\* discovered 2 days, 7 days 23 hours, 30 days 23 hours and 40 days before the run starts
Discovered == {{}, {-48}, {-191}, {-743}, {-960}}

PresentSets(x) == {Val({}), Val({x})}

AnySets(x) == {Absent({}), Null({})} \cup PresentSets(x)

PresentUrls == {Val(<<>>), Val(<< <<"a", "b">> >>), Val(<< <<"c">>, <<"/", "a">> >>),
                Val(<< <<"a">>, <<"b">> >>), Val(<< <<"c">> >>)}

\* one pending log against one candidate: every field combination
PairLogs == {LogRow(ip, dom, url, fh) :
                ip \in {None, IP1, IP2}, dom \in {None, D1}, url \in {<<>>, U1}, fh \in {None, H1}}

PairThreats ==
    {ThreatRow(ips, doms, urls, fhs, disc, sev) :
        ips \in PresentSets(IP1), doms \in PresentSets(D1), urls \in PresentUrls,
        fhs \in PresentSets(<<"md5", H1>>), disc \in Discovered, sev \in Severities}
    \cup
    {ThreatRow(ips, doms, urls, fhs, disc, sev) :
        ips \in AnySets(IP1), doms \in AnySets(D1),
        urls \in {Absent(<<>>), Null(<<>>), Val(<<>>), Val(<< <<"a", "b">> >>)},
        fhs \in AnySets(<<"md5", H1>>), disc \in {{-48}}, sev \in {NoKey, "high"}}

\* batches: several pending logs against several candidates, all discovered
\* 7 days 23 hours before the run starts; the last candidate has domains None
BatchLogs == {LogRow(ip, D1, <<>>, None) : ip \in {IP1, IP2}}

BatchThreats ==
    {ThreatRow(Val({}), Val({D1}), Val(<<>>), Val({}), {-191}, None),
     ThreatRow(Val({IP1}), Val({D1}), Val(<<>>), Val({}), {-191}, None),
     ThreatRow(Val({IP2}), Val({D1}), Val(<<>>), Val({}), {-191}, "high"),
     ThreatRow(Val({IP1, IP2}), Null({}), Val(<<>>), Val({}), {-191}, "critical")}

\* rows get their ids (and threats their titles) from their place in the table
WithIds(rows) == [k \in 1..Len(rows) |-> [id |-> k] @@ rows[k]]

WithTitles(rows) == [k \in 1..Len(rows) |-> [id |-> k, title |-> <<"threat", k>>] @@ rows[k]]

Lists(S, n) == UNION {[1..m -> S] : m \in 0..n}

-----------------------------------------------------------------------------
\* The batch run.

\* the parts of the state a run of process_pending_logs does not touch
TaskIdle ==
    /\ task = "none"
    /\ task_pc = "idle"
    /\ retries = 0
    /\ attempts = 0
    /\ retry_requests = <<>>
    /\ batch_called = 0
    /\ task_result = <<>>

MLIdle ==
    /\ scorer_model = "none"
    /\ scorer_disk = FALSE
    /\ classifier_model = "none"
    /\ classifier_disk = FALSE
    /\ ml_out = <<>>

NLPIdle ==
    /\ threat_text = <<>>
    /\ iocs = <<>>
    /\ spacy_env = "installed"
    /\ doc_ents = <<>>
    /\ nlp = "none"
    /\ extraction = <<>>
    /\ previous = <<>>
    /\ runs = 0
    /\ conf_args = <<>>
    /\ confidence = <<>>

CallsIdle ==
    /\ calls = <<>>
    /\ loads = <<>>

StoreIdle ==
    /\ db_threats = <<>>
    /\ api_response = <<>>

\* settings.RATE_LIMIT_PER_MINUTE
RATE_LIMIT_PER_MINUTE == 60

RateIdle ==
    /\ calls_per_minute = RATE_LIMIT_PER_MINUTE
    /\ time_s = 0
    /\ zsets = <<>>
    /\ expires = <<>>
    /\ responses = <<>>

BatchIdle ==
    /\ now = 0
    /\ pc = "idle"
    /\ i = 0
    /\ j = 0
    /\ log_entry = <<>>
    /\ best_correlation = <<>>
    /\ best_score = F0_0
    /\ scored = <<>>
    /\ correlation = <<>>
    /\ correlations_found = 0
    /\ alerts_generated = 0
    /\ updates = <<>>
    /\ alerts = <<>>
    /\ handled = <<>>
    /\ result = <<>>
    /\ error = ""

Init ==
    /\ \/ /\ pending_logs \in {WithIds(<<l>>) : l \in PairLogs}
          /\ threats \in {WithTitles(<<t>>) : t \in PairThreats}
       \/ /\ pending_logs \in {WithIds(ls) : ls \in Lists(BatchLogs, MaxLogs)}
          /\ threats \in {WithTitles(ts) : ts \in Lists(BatchThreats, MaxThreats)}
    /\ BatchIdle
    /\ TaskIdle
    /\ MLIdle
    /\ NLPIdle
    /\ CallsIdle
    /\ StoreIdle
    /\ RateIdle

\* StartBatch returning empty counts when the pending logs cannot be loaded
StartBatch_swallow ==
    /\ pc = "idle"
    /\ \E loaded \in BOOLEAN :
          IF loaded
          THEN /\ pc' = "loop"
               /\ i' = 1
               /\ correlations_found' = 0
               /\ alerts_generated' = 0
               /\ UNCHANGED <<error, result>>
          ELSE /\ pc' = "done"
               /\ error' = "pending_logs_unavailable"
               /\ result' = << [status             |-> "completed",
                                logs_processed     |-> 0,
                                correlations_found |-> 0,
                                alerts_generated   |-> 0] >>
               /\ UNCHANGED <<i, correlations_found, alerts_generated>>
    /\ UNCHANGED <<pending_logs, threats, now, j, log_entry, best_correlation, best_score,
                   scored, correlation, updates, alerts, handled>>
    /\ UNCHANGED <<task_vars, ml_vars, nlp_vars, call_vars, store_vars, rate_vars>>

\* process_pending_logs: the pending logs are loaded and the counters reset;
\* when _get_pending_logs raises, the exception is logged and raised again
StartBatch ==
    /\ pc = "idle"
    /\ \E loaded \in BOOLEAN :
          IF loaded
          THEN /\ pc' = "loop"
               /\ i' = 1
               /\ correlations_found' = 0
               /\ alerts_generated' = 0
               /\ UNCHANGED error
          ELSE /\ pc' = "failed"
               /\ error' = "pending_logs_unavailable"
               /\ UNCHANGED <<i, correlations_found, alerts_generated>>
    /\ UNCHANGED <<pending_logs, threats, now, j, log_entry, best_correlation, best_score,
                   scored, correlation, updates, alerts, handled, result>>
    /\ UNCHANGED <<task_vars, ml_vars, nlp_vars, call_vars, store_vars, rate_vars>>

\* correlate_log(log_entry['id']): _get_log_entry finds the row, returns None
\* or raises; _get_relevant_threats returns the candidates or raises.  An
\* exception leaves correlate_log and process_pending_logs, which both log it
\* and raise it again.
BeginCorrelate ==
    /\ pc = "loop"
    /\ i <= Len(pending_logs)
    /\ \E outcome \in {"found", "none", "lookup_raises", "threats_raise"} :
          CASE outcome = "found" ->
                  /\ log_entry' = <<pending_logs[i]>>
                  /\ best_correlation' = <<>>
                  /\ best_score' = F0_0
                  /\ scored' = <<>>
                  /\ j' = 1
                  /\ pc' = "scoring"
                  /\ UNCHANGED <<correlation, error>>
            [] outcome = "none" ->
                  /\ log_entry' = <<>>
                  /\ correlation' = <<>>
                  /\ pc' = "returned"
                  /\ UNCHANGED <<best_correlation, best_score, scored, j, error>>
            [] outcome = "lookup_raises" ->
                  /\ log_entry' = <<>>
                  /\ pc' = "failed"
                  /\ error' = "log_entry_unavailable"
                  /\ UNCHANGED <<best_correlation, best_score, scored, j, correlation>>
            [] outcome = "threats_raise" ->
                  /\ log_entry' = <<pending_logs[i]>>
                  /\ best_correlation' = <<>>
                  /\ best_score' = F0_0
                  /\ scored' = <<>>
                  /\ pc' = "failed"
                  /\ error' = "threats_unavailable"
                  /\ UNCHANGED <<j, correlation>>
    /\ UNCHANGED <<pending_logs, threats, now, i, correlations_found, alerts_generated,
                   updates, alerts, handled, result>>
    /\ UNCHANGED <<task_vars, ml_vars, nlp_vars, call_vars, store_vars, rate_vars>>

\* ScoreThreat with the write-back indented into the loop: every candidate that
\* becomes the best one above the threshold is written back at once
ScoreThreat_update_in_loop ==
    /\ pc = "scoring"
    /\ j <= Len(threats)
    /\ LET threat == threats[j]
           score  == calculate_correlation_score(log_entry[1], threat, now)
           built  == [threat_id          |-> threat.id,
                      threat_title       |-> threat.title,
                      score              |-> score,
                      matched_indicators |-> get_matched_indicators(log_entry[1], threat),
                      correlation_type   |-> get_correlation_type(log_entry[1], threat)]
       IN  /\ scored' = Append(scored, [score |-> score, at |-> now])
           /\ IF is_better(score, best_score)
              THEN IF CorrelationRaises(threat)
                   THEN /\ pc' = "failed"
                        /\ error' = "TypeError"
                        /\ UNCHANGED <<best_score, best_correlation, j, updates>>
                   ELSE /\ best_score' = score
                        /\ best_correlation' = <<built>>
                        /\ updates' = IF is_persisted(<<built>>, score)
                                      THEN Append(updates, [log_entry_id |-> log_entry[1].id,
                                                             correlation  |-> built])
                                      ELSE updates
                        /\ j' = j + 1
                        /\ UNCHANGED <<pc, error>>
              ELSE /\ j' = j + 1
                   /\ UNCHANGED <<best_score, best_correlation, pc, error, updates>>
    /\ UNCHANGED <<pending_logs, threats, now, i, log_entry, correlation, correlations_found,
                   alerts_generated, alerts, handled, result>>
    /\ UNCHANGED <<task_vars, ml_vars, nlp_vars, call_vars, store_vars, rate_vars>>

\* correlate_log: one iteration of the loop over the candidate threats; an
\* exception raised while the correlation is built leaves correlate_log and
\* process_pending_logs (both log it and raise it again)
ScoreThreat ==
    /\ pc = "scoring"
    /\ j <= Len(threats)
    /\ LET threat == threats[j]
           score  == calculate_correlation_score(log_entry[1], threat, now)
       IN  /\ scored' = Append(scored, [score |-> score, at |-> now])
           /\ IF is_better(score, best_score)
              THEN IF CorrelationRaises(threat)
                   THEN /\ pc' = "failed"
                        /\ error' = "TypeError"
                        /\ UNCHANGED <<best_score, best_correlation, j>>
                   ELSE /\ best_score' = score
                        /\ best_correlation' =
                              << [threat_id          |-> threat.id,
                                  threat_title       |-> threat.title,
                                  score              |-> score,
                                  matched_indicators |-> get_matched_indicators(log_entry[1], threat),
                                  correlation_type   |-> get_correlation_type(log_entry[1], threat)] >>
                        /\ j' = j + 1
                        /\ UNCHANGED <<pc, error>>
              ELSE /\ j' = j + 1
                   /\ UNCHANGED <<best_score, best_correlation, pc, error>>
    /\ UNCHANGED <<pending_logs, threats, now, i, log_entry, correlation, correlations_found,
                   alerts_generated, updates, alerts, handled, result>>
    /\ UNCHANGED <<task_vars, ml_vars, nlp_vars, call_vars, store_vars, rate_vars>>

\* EndCorrelate with the write-back also clearing the domain of the stored
\* log event
EndCorrelate_clears_domain ==
    /\ pc = "scoring"
    /\ j > Len(threats)
    /\ updates' = IF is_persisted(best_correlation, best_score)
                  THEN Append(updates, [log_entry_id |-> log_entry[1].id,
                                         correlation  |-> best_correlation[1]])
                  ELSE updates
    /\ pending_logs' = IF is_persisted(best_correlation, best_score)
                       THEN [pending_logs EXCEPT ![i].domain = None]
                       ELSE pending_logs
    /\ correlation' = best_correlation
    /\ pc' = "returned"
    /\ UNCHANGED <<threats, now, i, j, log_entry, best_correlation, best_score,
                   scored, correlations_found, alerts_generated, alerts, handled, result, error>>
    /\ UNCHANGED <<task_vars, ml_vars, nlp_vars, call_vars, store_vars, rate_vars>>

\* correlate_log after the loop: write the correlation back, return it
EndCorrelate ==
    /\ pc = "scoring"
    /\ j > Len(threats)
    /\ updates' = IF is_persisted(best_correlation, best_score)
                  THEN Append(updates, [log_entry_id |-> log_entry[1].id,
                                         correlation  |-> best_correlation[1]])
                  ELSE updates
    /\ correlation' = best_correlation
    /\ pc' = "returned"
    /\ UNCHANGED <<pending_logs, threats, now, i, j, log_entry, best_correlation, best_score,
                   scored, correlations_found, alerts_generated, alerts, handled, result, error>>
    /\ UNCHANGED <<task_vars, ml_vars, nlp_vars, call_vars, store_vars, rate_vars>>

\* process_pending_logs: the rest of the loop body, after correlate_log returned
HandleReturn ==
    /\ pc = "returned"
    /\ LET found == is_correlated(correlation)
           alert == found /\ is_alerted(correlation)
       IN  /\ correlations_found' = IF found THEN correlations_found + 1 ELSE correlations_found
           /\ alerts' = IF alert
                        THEN Append(alerts, [log_entry |-> pending_logs[i], correlation |-> correlation[1]])
                        ELSE alerts
           /\ alerts_generated' = IF alert THEN alerts_generated + 1 ELSE alerts_generated
    /\ handled' = Append(handled, [log_id |-> pending_logs[i].id, correlation |-> correlation])
    /\ i' = i + 1
    /\ pc' = "loop"
    /\ UNCHANGED <<pending_logs, threats, now, j, log_entry, best_correlation, best_score,
                   scored, correlation, updates, result, error>>
    /\ UNCHANGED <<task_vars, ml_vars, nlp_vars, call_vars, store_vars, rate_vars>>

\* process_pending_logs: the loop is over, the counts are returned
FinishBatch ==
    /\ pc = "loop"
    /\ i > Len(pending_logs)
    /\ result' = << [status             |-> "completed",
                     logs_processed     |-> Len(pending_logs),
                     correlations_found |-> correlations_found,
                     alerts_generated   |-> alerts_generated] >>
    /\ pc' = "done"
    /\ UNCHANGED <<pending_logs, threats, now, i, j, log_entry, best_correlation, best_score,
                   scored, correlation, correlations_found, alerts_generated, updates, alerts,
                   handled, error>>
    /\ UNCHANGED <<task_vars, ml_vars, nlp_vars, call_vars, store_vars, rate_vars>>

\* the clock advances by an hour while the run is in progress
Tick ==
    /\ pc \in {"loop", "scoring", "returned"}
    /\ now < MaxTicks
    /\ now' = now + 1
    /\ UNCHANGED <<pending_logs, threats, pc, i, j, log_entry, best_correlation, best_score,
                   scored, correlation, correlations_found, alerts_generated, updates, alerts,
                   handled, result, error>>
    /\ UNCHANGED <<task_vars, ml_vars, nlp_vars, call_vars, store_vars, rate_vars>>

Next ==
    \/ StartBatch
    \/ BeginCorrelate
    \/ ScoreThreat
    \/ EndCorrelate
    \/ HandleReturn
    \/ FinishBatch
    \/ Tick

Spec == Init /\ [][Next]_vars

-----------------------------------------------------------------------------
\* The scheduled tasks and their retries.

\* the periodic tasks that retry themselves
Tasks == {"process_correlations", "train_models"}

\* the beat scheduler sends one message for a task; it is delivered with
\* request.retries = 0
Dispatch ==
    /\ task_pc = "idle"
    /\ \E t \in Tasks : task' = t
    /\ task_pc' = "running"
    /\ attempts' = 1
    /\ retries' = 0
    /\ UNCHANGED <<retry_requests, batch_called, task_result>>
    /\ UNCHANGED <<batch_vars, ml_vars, nlp_vars, call_vars, store_vars, rate_vars>>

\* the arguments of self.retry with the two tasks' values exchanged
retry_args_swapped(t) ==
    IF t = "process_correlations"
    THEN [countdown |-> 300, max_retries |-> 2]
    ELSE [countdown |-> 60, max_retries |-> 3]

\* the arguments each task passes to self.retry
retry_args(t) ==
    IF t = "process_correlations"
    THEN [countdown |-> 60, max_retries |-> 3]
    ELSE [countdown |-> 300, max_retries |-> 2]

\* raise self.retry(exc=exc, countdown=.., max_retries=..): once
\* request.retries has reached max_retries the exception is raised and the
\* task fails; otherwise the task is sent again with request.retries + 1
\* after the countdown
retry(args) ==
    IF retries >= args.max_retries
    THEN /\ task_pc' = "failed"
         /\ UNCHANGED <<retries, retry_requests>>
    ELSE /\ task_pc' = "retry_pending"
         /\ retries' = retries + 1
         /\ retry_requests' = Append(retry_requests,
                                     [task        |-> task,
                                      countdown   |-> args.countdown,
                                      max_retries |-> args.max_retries,
                                      retries     |-> retries + 1])

\* one attempt of process_correlations.  process_pending_logs is an async def
\* and is called without await: the call returns a coroutine object and no
\* line of its body runs.  result['correlations_found'] then raises TypeError
\* (a coroutine is not subscriptable), which the except clause turns into
\* self.retry.
process_correlations ==
    /\ task = "process_correlations"
    /\ task_pc = "running"
    /\ batch_called' = batch_called + 1
    /\ retry(retry_args(task))
    /\ UNCHANGED <<task, attempts, task_result>>
    /\ UNCHANGED <<batch_vars, ml_vars, nlp_vars, call_vars, store_vars, rate_vars>>

\* one attempt of train_models: ThreatClassifier().train() then
\* RiskScorer().train(), each of which fits a new pipeline and dumps it to its
\* model path, or raises; an exception of either becomes self.retry
train_models ==
    /\ task = "train_models"
    /\ task_pc = "running"
    /\ \E outcome \in {"trained", "classifier_raises", "risk_scorer_raises"} :
          CASE outcome = "trained" ->
                  /\ classifier_disk' = TRUE
                  /\ scorer_disk' = TRUE
                  /\ task_result' = << [classifier |-> "success", risk_scorer |-> "success"] >>
                  /\ task_pc' = "succeeded"
                  /\ UNCHANGED <<retries, retry_requests>>
            [] outcome = "classifier_raises" ->
                  /\ retry(retry_args(task))
                  /\ UNCHANGED <<classifier_disk, scorer_disk, task_result>>
            [] outcome = "risk_scorer_raises" ->
                  /\ classifier_disk' = TRUE
                  /\ retry(retry_args(task))
                  /\ UNCHANGED <<scorer_disk, task_result>>
    /\ UNCHANGED <<task, attempts, batch_called, scorer_model, classifier_model, ml_out>>
    /\ UNCHANGED <<batch_vars, nlp_vars, call_vars, store_vars, rate_vars>>

\* the countdown is over and the worker runs the task again
Redeliver ==
    /\ task_pc = "retry_pending"
    /\ task_pc' = "running"
    /\ attempts' = attempts + 1
    /\ UNCHANGED <<task, retries, retry_requests, batch_called, task_result>>
    /\ UNCHANGED <<batch_vars, ml_vars, nlp_vars, call_vars, store_vars, rate_vars>>

NextTasks ==
    \/ Dispatch
    \/ process_correlations
    \/ train_models
    \/ Redeliver

SpecTasks == Init /\ [][NextTasks]_vars

-----------------------------------------------------------------------------
\* The risk scorer and the threat classifier.  A model held in memory is
\* "none" (self.model is None), "unfitted" (a pipeline that was never fitted)
\* or "fitted"; a model file on disk is always a fitted pipeline.  Scores are
\* in thousandths: 7999 is 7.999.

\* raw outputs of the regressor the scorer is checked on
RawOutputs == {-1500, -1, 0, 1, 1999, 2000, 2001, 3999, 4000, 4001, 5999, 6000,
               6001, 7999, 8000, 8001, 9999, 10000, 10001, 12000}

\* Python min(a, b) and max(a, b): the first argument wins unless the second
\* is strictly smaller (larger)
PyMin(a, b) == IF b < a THEN b ELSE a

PyMax(a, b) == IF b > a THEN b ELSE a

\* the raw output passed on as it is
clamp_none(risk_score) == risk_score

\* risk_score = max(0.0, min(10.0, risk_score))
clamp(risk_score) == PyMax(0, PyMin(10000, risk_score))

\* the bands with every boundary value in the lower band
get_risk_level_strict(risk_score) ==
    IF risk_score > 8000 THEN "critical"
    ELSE IF risk_score > 6000 THEN "high"
    ELSE IF risk_score > 4000 THEN "medium"
    ELSE IF risk_score > 2000 THEN "low"
    ELSE "minimal"

\* _get_risk_level
get_risk_level(risk_score) ==
    IF risk_score >= 8000 THEN "critical"
    ELSE IF risk_score >= 6000 THEN "high"
    ELSE IF risk_score >= 4000 THEN "medium"
    ELSE IF risk_score >= 2000 THEN "low"
    ELSE "minimal"

\* a missing model file read as a fitted default model
joblib_load_default(on_disk) == "fitted"

\* joblib.load(self.model_path): the persisted pipeline, or an exception
\* when there is no file
joblib_load(on_disk) == IF on_disk THEN "fitted" ELSE "raise"

\* self.categories, in the order of the declaration
categories == <<"malware", "vulnerability", "phishing", "botnet", "ransomware", "apt",
                "ddos", "other">>

\* the fitted classifier's classes_: the labels of the training data, which
\* are self.categories * 100, in sorted order
classes_ == <<"apt", "botnet", "ddos", "malware", "other", "phishing", "ransomware",
              "vulnerability">>

\* number of trees of the forest the classifier is checked with
MaxTrees == 2

\* the vectors of length k whose entries are votes that add up to n
RECURSIVE Votes(_, _)
Votes(k, n) ==
    IF k = 0
    THEN IF n = 0 THEN {<<>>} ELSE {}
    ELSE UNION {{Append(v, m) : v \in Votes(k - 1, n - m)} : m \in 0..n}

\* predict_proba([threat_text])[0]: one probability per class of classes_, as
\* the number of trees voting for the class
Probabilities == Votes(Len(classes_), MaxTrees)

\* the first probability taken for the largest
np_max_first(probabilities) == probabilities[1]

\* np.max(probabilities)
np_max(probabilities) ==
    CHOOSE m \in {probabilities[k] : k \in 1..Len(probabilities)} :
        \A k \in 1..Len(probabilities) : probabilities[k] <= m

\* np.argmax: the first index holding the maximum
np_argmax(probabilities) ==
    CHOOSE k \in 1..Len(probabilities) :
        /\ probabilities[k] = np_max(probabilities)
        /\ \A l \in 1..(k - 1) : probabilities[l] < probabilities[k]

\* self.model.predict([threat_text])[0] of a random forest
predict(probabilities) == classes_[np_argmax(probabilities)]

\* {cat: float(prob) for cat, prob in zip(self.categories, probabilities)}:
\* the k-th probability is stored under the k-th name of self.categories
zip_categories(probabilities) ==
    LET n == PyMin(Len(categories), Len(probabilities))
    IN  [cat \in {categories[k] : k \in 1..n} |->
             probabilities[CHOOSE k \in 1..n : categories[k] = cat]]

\* what one call of the scorer or classifier did
Outcome(call, model, on_disk, status, raw, res) ==
    << [call |-> call, pre_model |-> model, pre_disk |-> on_disk, status |-> status,
        raw |-> raw, result |-> res] >>

\* a new RiskScorer and a new ThreatClassifier, as each task call makes them
NewInstances ==
    /\ scorer_model # "none" \/ classifier_model # "none"
    /\ scorer_model' = "none"
    /\ classifier_model' = "none"
    /\ UNCHANGED <<scorer_disk, classifier_disk, ml_out>>
    /\ UNCHANGED <<batch_vars, task_vars, nlp_vars, call_vars, store_vars, rate_vars>>

\* RiskScorer.train: self.model becomes a new pipeline before it is fitted;
\* fit or joblib.dump may raise
RiskScorer_train ==
    /\ \E outcome \in {"success", "fit_raises", "dump_raises"} :
          /\ scorer_model' = IF outcome = "fit_raises" THEN "unfitted" ELSE "fitted"
          /\ scorer_disk' = IF outcome = "success" THEN TRUE ELSE scorer_disk
          /\ ml_out' = Outcome("RiskScorer.train", scorer_model, scorer_disk,
                               IF outcome = "success" THEN "ok" ELSE "error", <<>>, <<>>)
    /\ UNCHANGED <<classifier_model, classifier_disk>>
    /\ UNCHANGED <<batch_vars, task_vars, nlp_vars, call_vars, store_vars, rate_vars>>

\* ThreatClassifier.train
ThreatClassifier_train ==
    /\ \E outcome \in {"success", "fit_raises", "dump_raises"} :
          /\ classifier_model' = IF outcome = "fit_raises" THEN "unfitted" ELSE "fitted"
          /\ classifier_disk' = IF outcome = "success" THEN TRUE ELSE classifier_disk
          /\ ml_out' = Outcome("ThreatClassifier.train", classifier_model, classifier_disk,
                               IF outcome = "success" THEN "ok" ELSE "error", <<>>, <<>>)
    /\ UNCHANGED <<scorer_model, scorer_disk>>
    /\ UNCHANGED <<batch_vars, task_vars, nlp_vars, call_vars, store_vars, rate_vars>>

\* RiskScorer.score_threat: load the model if none is in memory, predict,
\* clamp, band; every exception is logged and raised again
score_threat ==
    /\ LET model == IF scorer_model = "none" THEN joblib_load(scorer_disk) ELSE scorer_model
       IN  IF model = "raise"
           THEN /\ ml_out' = Outcome("score_threat", scorer_model, scorer_disk, "error", <<>>, <<>>)
                /\ UNCHANGED scorer_model
           ELSE /\ scorer_model' = model
                /\ IF model = "unfitted"
                   THEN ml_out' = Outcome("score_threat", scorer_model, scorer_disk, "error",
                                          <<>>, <<>>)
                   ELSE \E raw \in RawOutputs :
                           LET risk_score == clamp(raw)
                               risk_level == get_risk_level(risk_score)
                           IN  ml_out' = Outcome("score_threat", scorer_model, scorer_disk, "ok",
                                                 raw,
                                                 << [risk_score |-> risk_score,
                                                     risk_level |-> risk_level] >>)
    /\ UNCHANGED <<scorer_disk, classifier_model, classifier_disk>>
    /\ UNCHANGED <<batch_vars, task_vars, nlp_vars, call_vars, store_vars, rate_vars>>

\* ThreatClassifier.classify_threat: load the model if none is in memory,
\* predict, take the largest probability as confidence, label the
\* probabilities; every exception is logged and raised again
classify_threat ==
    /\ LET model == IF classifier_model = "none" THEN joblib_load(classifier_disk)
                    ELSE classifier_model
       IN  IF model = "raise"
           THEN /\ ml_out' = Outcome("classify_threat", classifier_model, classifier_disk,
                                     "error", <<>>, <<>>)
                /\ UNCHANGED classifier_model
           ELSE /\ classifier_model' = model
                /\ IF model = "unfitted"
                   THEN ml_out' = Outcome("classify_threat", classifier_model, classifier_disk,
                                          "error", <<>>, <<>>)
                   ELSE \E probabilities \in Probabilities :
                           ml_out' = Outcome("classify_threat", classifier_model,
                                             classifier_disk, "ok", probabilities,
                                             << [predicted_category |-> predict(probabilities),
                                                 confidence_score   |-> np_max(probabilities),
                                                 probabilities      |-> zip_categories(probabilities)] >>)
    /\ UNCHANGED <<scorer_model, scorer_disk, classifier_disk>>
    /\ UNCHANGED <<batch_vars, task_vars, nlp_vars, call_vars, store_vars, rate_vars>>

InitML ==
    /\ pending_logs = <<>>
    /\ threats = <<>>
    /\ BatchIdle
    /\ TaskIdle
    /\ MLIdle
    /\ NLPIdle
    /\ CallsIdle
    /\ StoreIdle
    /\ RateIdle

NextML ==
    \/ NewInstances
    \/ RiskScorer_train
    \/ ThreatClassifier_train
    \/ score_threat
    \/ classify_threat

SpecML == InitML /\ [][NextML]_vars

-----------------------------------------------------------------------------
\* IOC extraction from a threat's text.  Texts and matches are strings; the
\* regular expression of the 'ip' pattern is run on the characters.

Char(t, k) == SubSeq(t, k, k)

Digits == {"0", "1", "2", "3", "4", "5", "6", "7", "8", "9"}

Letters == {"a", "b", "c", "d", "e", "f", "g", "h", "i", "j", "k", "l", "m", "n", "o", "p",
            "q", "r", "s", "t", "u", "v", "w", "x", "y", "z",
            "A", "B", "C", "D", "E", "F", "G", "H", "I", "J", "K", "L", "M", "N", "O", "P",
            "Q", "R", "S", "T", "U", "V", "W", "X", "Y", "Z"}

\* the characters \w matches, for the \b of the pattern
WordChars == Digits \cup Letters \cup {"_"}

IsWord(c) == c \in WordChars

\* the length of the run of digits that starts at position p
RECURSIVE DigitRun(_, _)
DigitRun(t, p) ==
    IF p > Len(t) \/ Char(t, p) \notin Digits THEN 0 ELSE 1 + DigitRun(t, p + 1)

\* (?:[0-9]{1,3}\.) at position p: the position after the dot, or 0
Group(t, p) ==
    LET n == DigitRun(t, p)
    IN  IF p > 0 /\ n >= 1 /\ n <= 3 /\ p + n <= Len(t) /\ Char(t, p + n) = "."
        THEN p + n + 1
        ELSE 0

\* \b(?:[0-9]{1,3}\.){3}[0-9]{1,3}\b at position p: the position of the last
\* character of the match, or 0 when the pattern does not match there
MatchEnd(t, p) ==
    LET g == Group(t, Group(t, Group(t, p)))
        n == IF g > 0 THEN DigitRun(t, g) ELSE 0
        e == g + n - 1
    IN  IF /\ (p = 1 \/ ~IsWord(Char(t, p - 1)))
           /\ g > 0
           /\ n >= 1
           /\ n <= 3
           /\ (e = Len(t) \/ ~IsWord(Char(t, e + 1)))
        THEN e
        ELSE 0

\* re.findall(pattern, text): the matches from left to right, the search
\* going on after the end of each match
RECURSIVE findall(_, _)
findall(t, p) ==
    IF p > Len(t)
    THEN <<>>
    ELSE LET e == MatchEnd(t, p)
         IN  IF e > 0
             THEN <<SubSeq(t, p, e)>> \o findall(t, e + 1)
             ELSE findall(t, p + 1)

\* str.startswith
startswith(s, prefix) ==
    Len(s) >= Len(prefix) /\ SubSeq(s, 1, Len(prefix)) = prefix

\* the prefixes with '192.168.' left out
private_prefixes_without_192 == {"10.", "127.", "172."}

\* the prefixes _filter_false_positives tests an 'ip' match against
private_prefixes == {"192.168.", "10.", "127.", "172."}

\* _filter_false_positives('ip', matches)
filter_false_positives(matches) ==
    {m \in matches : ~(\E prefix \in private_prefixes : startswith(m, prefix))}

\* _extract_iocs for the 'ip' pattern: the matches without duplicates are
\* filtered, and stored under 'ip' only when some are left
extract_iocs(text) ==
    LET matches  == findall(text, 1)
        unique   == {matches[k] : k \in 1..Len(matches)}
        filtered == filter_false_positives(unique)
    IN  IF matches # <<>> /\ filtered # {}
        THEN [ioc_type \in {"ip"} |-> filtered]
        ELSE <<>>

\* one character lowered: the upper-case letters change, the other
\* characters of the texts stay
LowerOf ==
    ("A" :> "a") @@ ("B" :> "b") @@ ("C" :> "c") @@ ("D" :> "d") @@ ("E" :> "e") @@ ("F" :> "f") @@
    ("G" :> "g") @@ ("H" :> "h") @@ ("I" :> "i") @@ ("J" :> "j") @@ ("K" :> "k") @@ ("L" :> "l") @@
    ("M" :> "m") @@ ("N" :> "n") @@ ("O" :> "o") @@ ("P" :> "p") @@ ("Q" :> "q") @@ ("R" :> "r") @@
    ("S" :> "s") @@ ("T" :> "t") @@ ("U" :> "u") @@ ("V" :> "v") @@ ("W" :> "w") @@ ("X" :> "x") @@
    ("Y" :> "y") @@ ("Z" :> "z") @@
    [c \in WordChars \cup {" ", ".", ",", "-", ":", "/"} |-> c]

\* str.lower, as the sequence of the lowered characters
RECURSIVE lower(_)
lower(t) ==
    IF t = "" THEN <<>> ELSE <<LowerOf[SubSeq(t, 1, 1)]>> \o lower(SubSeq(t, 2, Len(t)))

\* pattern in text_lower, both as sequences of characters
contains(text_lower, pattern) ==
    \E k \in 0..(Len(text_lower) - Len(pattern)) :
        /\ text_lower[k + 1] = pattern[1]
        /\ \A l \in 2..Len(pattern) : text_lower[k + l] = pattern[l]

\* self.attack_patterns, each list in the order of the declaration
attack_patterns ==
    [malware_families |->
        <<"wannacry", "petya", "notpetya", "ryuk", "maze", "revil", "conti", "emotet",
          "trickbot", "qakbot", "dridex", "zeus", "carbanak">>,
     attack_techniques |->
        <<"sql injection", "xss", "csrf", "lfi", "rfi", "xxe", "ssrf", "privilege escalation",
          "lateral movement", "data exfiltration", "command injection", "buffer overflow",
          "heap overflow">>,
     attack_vectors |->
        <<"phishing", "spear phishing", "watering hole", "drive by download", "supply chain",
          "insider threat", "social engineering">>]

\* pattern.lower() for every pattern of a list
RECURSIVE lower_all(_)
lower_all(pattern_list) ==
    IF pattern_list = <<>>
    THEN <<>>
    ELSE <<lower(Head(pattern_list))>> \o lower_all(Tail(pattern_list))

\* pattern.lower() for every pattern of self.attack_patterns
lowered_patterns ==
    [malware_families  |-> lower_all(attack_patterns.malware_families),
     attack_techniques |-> lower_all(attack_patterns.attack_techniques),
     attack_vectors    |-> lower_all(attack_patterns.attack_vectors)]

\* the list a stateful extractor would go on appending to
found_patterns_start_kept(prev, pattern_type) ==
    IF prev # <<>> /\ pattern_type \in DOMAIN prev[1].attack_patterns
    THEN prev[1].attack_patterns[pattern_type]
    ELSE <<>>

\* found_patterns = [] at the start of each pattern type
found_patterns_start(prev, pattern_type) == <<>>

\* the patterns of one list found in the lowered text, in list order, after
\* what found_patterns held at the start
RECURSIVE found_patterns(_, _, _, _)
found_patterns(text_lower, pattern_type, k, found) ==
    IF k > Len(attack_patterns[pattern_type])
    THEN found
    ELSE found_patterns(text_lower, pattern_type, k + 1,
                        IF contains(text_lower, lowered_patterns[pattern_type][k])
                        THEN Append(found, attack_patterns[pattern_type][k])
                        ELSE found)

\* _extract_attack_patterns: a pattern type is stored only when something
\* was found for it
extract_attack_patterns(text, prev) ==
    LET text_lower == lower(text)
        all == [pattern_type \in DOMAIN attack_patterns |->
                     found_patterns(text_lower, pattern_type, 1,
                                    found_patterns_start(prev, pattern_type))]
    IN  [pattern_type \in {t \in DOMAIN attack_patterns : all[t] # <<>>} |-> all[pattern_type]]

\* _initialize_nlp: self.nlp after the call.  spacy.load succeeds, or raises
\* OSError and spacy.blank("en") is used, or the fallback raises as well and
\* self.nlp is set to None
initialize_nlp(self_nlp, env) ==
    IF self_nlp # "none" THEN self_nlp
    ELSE IF env = "installed" THEN "en_core_web_sm"
    ELSE IF env = "missing" THEN "blank"
    ELSE "none"

\* _extract_named_entities with self.nlp as _initialize_nlp left it: nothing
\* without a pipeline, nothing from a blank pipeline (it has no entity
\* recogniser), the entities of the document otherwise, by lowered label
extract_named_entities(self_nlp, ents) ==
    IF self_nlp = "en_core_web_sm" THEN ents ELSE <<>>

\* sum(len(v) for v in d.values()), for a dict of lists without duplicates
RECURSIVE SumSets(_)
SumSets(d) ==
    IF DOMAIN d = {}
    THEN 0
    ELSE LET key == CHOOSE key \in DOMAIN d : TRUE
         IN  Cardinality(d[key]) + SumSets([other \in DOMAIN d \ {key} |-> d[other]])

\* sum(len(v) for v in d.values()), for a dict of lists
RECURSIVE SumLists(_)
SumLists(d) ==
    IF DOMAIN d = {}
    THEN 0
    ELSE LET key == CHOOSE key \in DOMAIN d : TRUE
         IN  Len(d[key]) + SumLists([other \in DOMAIN d \ {key} |-> d[other]])

\* min(1.0, n / 5) * 0.4 in binary64
ioc_score(n) ==
    CASE n = 0 -> F0_0
      [] n = 1 -> F64(21474836, 257698040)
      [] n = 2 -> F64(42949672, 515396080)
      [] n = 3 -> F64(64424509, 236223200)
      [] n = 4 -> F64(85899345, 493921248)
      [] OTHER -> F0_4

\* min(1.0, n / 5) * 0.3 in binary64
entity_score(n) ==
    CASE n = 0 -> F0_0
      [] n = 1 -> F64(16106127, 193273528)
      [] n = 2 -> F64(32212254, 386547056)
      [] n = 3 -> F64(48318382, 42949672)
      [] n = 4 -> F64(64424509, 236223200)
      [] OTHER -> F0_3

\* min(1.0, n / 3) * 0.3 in binary64
pattern_score(n) ==
    CASE n = 0 -> F0_0
      [] n = 1 -> F64(26843545, 322122546)
      [] n = 2 -> F64(53687091, 107374180)
      [] OTHER -> F0_3

\* the confidence with the two 0.3 weights applied to the wrong groups' divisors
calculate_confidence_unweighted(ioc_dict, entity_dict, pattern_dict) ==
    IF SumSets(ioc_dict) + SumSets(entity_dict) + SumLists(pattern_dict) = 0
    THEN F0_0
    ELSE FAdd(FAdd(ioc_score(SumSets(ioc_dict)), pattern_score(SumSets(entity_dict))),
              entity_score(SumLists(pattern_dict)))

\* _calculate_confidence
calculate_confidence(ioc_dict, entity_dict, pattern_dict) ==
    IF SumSets(ioc_dict) + SumSets(entity_dict) + SumLists(pattern_dict) = 0
    THEN F0_0
    ELSE FAdd(FAdd(ioc_score(SumSets(ioc_dict)), entity_score(SumSets(entity_dict))),
              pattern_score(SumLists(pattern_dict)))

\* longest text, in pieces
MaxPieces == 3

\* the pieces the texts are made of; of the IOC patterns only 'ip' matches
\* anywhere in a text made of them
Pieces == {"192.168.1.1", "203.0.113.42", "10.0.0.1", "172.16.0.1", "172.32.0.1",
           "127.0.0.1", "010.0.0.1", "1.", " and ", "_", " Spear Phishing"}

RECURSIVE Texts(_)
Texts(n) ==
    IF n = 0 THEN {""} ELSE Texts(n - 1) \cup {t \o piece : t \in Texts(n - 1), piece \in Pieces}

\* what the installed language model may find in a text; the texts of full
\* length are read with the model installed and nothing found, the shorter
\* ones in every environment
EntityOutcomes == {<<>>, [label \in {"org"} |-> {"Emotet"}]}

\* extract_from_threat: an empty text gives the empty result; any other text
\* goes through _extract_iocs, _extract_named_entities (which loads the
\* language model when the instance has none), _extract_attack_patterns and
\* _calculate_confidence.  No step of it raises: _extract_named_entities
\* catches every exception of the language model.  A text is followed through
\* two calls: the second one finds the result of the first in extraction and
\* moves it to previous.
extract_from_threat ==
    /\ previous = <<>>
    /\ runs' = runs + 1
    /\ previous' = extraction
    /\ IF threat_text = ""
       THEN /\ iocs' = << <<>> >>
            /\ extraction' = << [entities |-> <<>>, iocs |-> <<>>, attack_patterns |-> <<>>,
                                 confidence |-> F0_0] >>
            /\ UNCHANGED nlp
       ELSE LET ioc_dict     == extract_iocs(threat_text)
                self_nlp     == initialize_nlp(nlp, spacy_env)
                entity_dict  == extract_named_entities(self_nlp, doc_ents)
                pattern_dict == extract_attack_patterns(threat_text, extraction)
            IN  /\ iocs' = <<ioc_dict>>
                /\ nlp' = self_nlp
                /\ extraction' =
                      << [entities        |-> entity_dict,
                          iocs            |-> ioc_dict,
                          attack_patterns |-> pattern_dict,
                          confidence      |-> calculate_confidence(ioc_dict, entity_dict,
                                                                   pattern_dict)] >>
    /\ UNCHANGED <<threat_text, spacy_env, doc_ents, conf_args, confidence>>
    /\ UNCHANGED <<batch_vars, task_vars, ml_vars, call_vars, store_vars, rate_vars>>

InitNLP ==
    /\ pending_logs = <<>>
    /\ threats = <<>>
    /\ BatchIdle
    /\ TaskIdle
    /\ MLIdle
    /\ CallsIdle
    /\ StoreIdle
    /\ RateIdle
    /\ iocs = <<>>
    /\ \/ /\ threat_text \in Texts(MaxPieces)
          /\ spacy_env = "installed"
          /\ doc_ents = <<>>
       \/ /\ threat_text \in Texts(MaxPieces - 1)
          /\ \E env \in {"installed", "missing", "broken"} :
                /\ spacy_env = env
                /\ doc_ents \in (IF env = "installed" THEN EntityOutcomes ELSE {<<>>})
    /\ nlp = "none"
    /\ extraction = <<>>
    /\ previous = <<>>
    /\ runs = 0
    /\ conf_args = <<>>
    /\ confidence = <<>>

NextNLP ==
    \/ extract_from_threat

SpecNLP == InitNLP /\ [][NextNLP]_vars

\* ---------------------------------------------------------------------
\* Concurrent score_threat and classify_threat calls on one shared RiskScorer
\* and one shared ThreatClassifier.  Nothing in the two methods takes a lock,
\* so the test of self.model, the load with its assignment and the
\* prediction are steps of their own and the calls interleave between them.

\* concurrent calls
MaxCalls == 2

Callers == 1..MaxCalls

\* self.model of the instance a method belongs to
model_of(method) == IF method = "score_threat" THEN scorer_model ELSE classifier_model

\* the file at self.model_path of the instance a method belongs to
disk_of(method) == IF method = "score_threat" THEN scorer_disk ELSE classifier_disk

\* a call moves on to position pc
moved(t, position) == [calls EXCEPT ![t].pc = position]

\* if self.model is None
test_model(t) ==
    /\ t \in DOMAIN calls
    /\ calls[t].pc = "start"
    /\ calls' = moved(t, IF model_of(calls[t].method) = "none" THEN "load" ELSE "predict")
    /\ UNCHANGED loads
    /\ UNCHANGED <<batch_vars, task_vars, ml_vars, nlp_vars, store_vars, rate_vars>>

\* self.model = joblib.load(self.model_path): the file is read and the
\* loaded pipeline assigned, or the exception of the missing file is logged
\* and raised again
load_model(t) ==
    /\ t \in DOMAIN calls
    /\ calls[t].pc = "load"
    /\ LET method == calls[t].method
           loaded == joblib_load(disk_of(method))
       IN  IF loaded = "raise"
           THEN /\ calls' = moved(t, "raised")
                /\ UNCHANGED <<loads, ml_vars>>
           ELSE /\ calls' = moved(t, "predict")
                /\ loads' = [loads EXCEPT ![method] = @ + 1]
                /\ IF method = "score_threat"
                   THEN scorer_model' = loaded /\ UNCHANGED classifier_model
                   ELSE classifier_model' = loaded /\ UNCHANGED scorer_model
                /\ UNCHANGED <<scorer_disk, classifier_disk, ml_out>>
    /\ UNCHANGED <<batch_vars, task_vars, nlp_vars, store_vars, rate_vars>>

\* self.model.predict (predict_proba for the classifier) with the model the
\* instance holds at that moment
predict_with_model(t) ==
    /\ t \in DOMAIN calls
    /\ calls[t].pc = "predict"
    /\ calls' = [calls EXCEPT ![t].pc = "done", ![t].predicted_with = model_of(calls[t].method)]
    /\ UNCHANGED loads
    /\ UNCHANGED <<batch_vars, task_vars, ml_vars, nlp_vars, store_vars, rate_vars>>

InitCalls ==
    /\ pending_logs = <<>>
    /\ threats = <<>>
    /\ BatchIdle
    /\ TaskIdle
    /\ NLPIdle
    /\ StoreIdle
    /\ RateIdle
    /\ scorer_model \in {"none", "fitted"}
    /\ scorer_disk \in BOOLEAN
    /\ classifier_model \in {"none", "fitted"}
    /\ classifier_disk \in BOOLEAN
    /\ ml_out = <<>>
    /\ \E methods \in [Callers -> {"score_threat", "classify_threat"}] :
          calls = [t \in Callers |-> [method |-> methods[t], pc |-> "start",
                                      predicted_with |-> "none"]]
    /\ loads = [method \in {"score_threat", "classify_threat"} |-> 0]

NextCalls ==
    \/ \E t \in Callers : test_model(t)
    \/ \E t \in Callers : load_model(t)
    \/ \E t \in Callers : predict_with_model(t)

SpecCalls == InitCalls /\ [][NextCalls]_vars

\* ---------------------------------------------------------------------
\* create_threat and update_threat on the stored threats.  Of a threat only
\* severity and cvss_score are followed; None is <<>>, a value v is <<v>>,
\* and the CVSS scores are in tenths.  The id of a stored threat is its
\* position in db_threats.

\* most stored threats
MaxStored == 2

\* the severities a request may carry: None, two of the accepted names, the
\* 'unknown' of the data model and a name outside it
RequestSeverities == {<<>>, <<"critical">>, <<"low">>, <<"unknown">>, <<"bogus">>}

\* the CVSS scores a request may carry: None, -0.1, 10.0 and 10.1
RequestScores == {<<>>, <<-1>>, <<100>>, <<101>>}

\* threat_data.dict(exclude_unset=True) of a ThreatUpdate: the fields the body
\* sets, None included
UpdateBodies ==
    {[field \in fields |-> [severity |-> severity, cvss_score |-> cvss_score][field]] :
        fields \in SUBSET {"severity", "cvss_score"},
        severity \in RequestSeverities, cvss_score \in RequestScores}

\* ThreatCreate.validate_severity: the value passes unless it is truthy and
\* not one of the four names
validate_severity(v) ==
    ~(v # <<>> /\ v[1] # "" /\ v[1] \notin {"critical", "high", "medium", "low"})

\* ThreatCreate.validate_cvss_score
validate_cvss_score(v) ==
    ~(v # <<>> /\ (v[1] < 0 \/ v[1] > 100))

\* the row ThreatIntelligence(...) makes of the fields it is given
ThreatIntelligence(severity, cvss_score) ==
    [severity |-> severity, cvss_score |-> cvss_score]

\* setattr(threat, field, value) for every field of
\* threat_data.dict(exclude_unset=True)
set_fields(threat, update_data) ==
    [field \in DOMAIN threat |->
        IF field \in DOMAIN update_data THEN update_data[field] ELSE threat[field]]

\* POST /: a body that fails a validator of ThreatCreate is answered 422
\* before the handler runs; otherwise the row is built, added and committed
create_threat ==
    /\ Len(db_threats) < MaxStored
    /\ \E severity \in RequestSeverities, cvss_score \in RequestScores :
          IF validate_severity(severity) /\ validate_cvss_score(cvss_score)
          THEN /\ db_threats' = Append(db_threats, ThreatIntelligence(severity, cvss_score))
               /\ api_response' = <<[call |-> "create_threat", status |-> 201,
                                     id |-> Len(db_threats) + 1]>>
          ELSE /\ api_response' = <<[call |-> "create_threat", status |-> 422, id |-> 0]>>
               /\ UNCHANGED db_threats
    /\ UNCHANGED <<batch_vars, task_vars, ml_vars, nlp_vars, call_vars, rate_vars>>

\* PUT /{threat_id}: 404 when there is no such threat; otherwise every field
\* the body sets is assigned to the row and committed.  ThreatUpdate has no
\* validator.
update_threat ==
    /\ \E threat_id \in 1..MaxStored, update_data \in UpdateBodies :
          IF threat_id > Len(db_threats)
          THEN /\ api_response' = <<[call |-> "update_threat", status |-> 404,
                                     id |-> threat_id]>>
               /\ UNCHANGED db_threats
          ELSE /\ db_threats' = [db_threats EXCEPT ![threat_id] = set_fields(@, update_data)]
               /\ api_response' = <<[call |-> "update_threat", status |-> 200,
                                     id |-> threat_id]>>
    /\ UNCHANGED <<batch_vars, task_vars, ml_vars, nlp_vars, call_vars, rate_vars>>

InitStore ==
    /\ pending_logs = <<>>
    /\ threats = <<>>
    /\ BatchIdle
    /\ TaskIdle
    /\ MLIdle
    /\ NLPIdle
    /\ CallsIdle
    /\ RateIdle
    /\ db_threats = <<>>
    /\ api_response = <<>>

NextStore ==
    \/ create_threat
    \/ update_threat

SpecStore == InitStore /\ [][NextStore]_vars

\* ---------------------------------------------------------------------
\* RateLimitMiddleware.  A sorted set of Redis is the set of its members with
\* their scores; the member of a request is str(current_time) and its score
\* current_time, so the set is kept as the set of the times in it.  The
\* pipeline is a MULTI/EXEC transaction, so is_allowed is one step.

\* self.window_size
window_size == 60

\* largest calls_per_minute the middleware is built with
MaxLimit == 2

\* requests followed
MaxRequests == 3

Clients == {"10.1.1.1", "10.2.2.2"}

Paths == {"/api/v1/threats", "/health"}

\* the readings of int(time.time()) requests arrive at
ClockReadings == {0, 1, window_size - 1, window_size}

\* the sorted set under the key of a client, empty once the key has expired
zset_of(client_ip) ==
    IF client_ip \in DOMAIN zsets /\ time_s < expires[client_ip] THEN zsets[client_ip] ELSE {}

\* zremrangebyscore(key, 0, window_start)
zremrangebyscore(zset, window_start) == {member \in zset : member > window_start}

\* zadd(key, {str(current_time): current_time}): a member is in the set once
zadd(zset, current_time) == zset \cup {current_time}

\* a function with one more or one changed entry
put(f, key, value) == [k \in DOMAIN f \cup {key} |-> IF k = key THEN value ELSE f[k]]

\* time passes
Clock ==
    /\ \E reading \in ClockReadings :
          /\ reading > time_s
          /\ time_s' = reading
    /\ UNCHANGED <<calls_per_minute, zsets, expires, responses>>
    /\ UNCHANGED <<batch_vars, task_vars, ml_vars, nlp_vars, call_vars, store_vars>>

\* dispatch with is_allowed: an exempt path goes straight on; otherwise the
\* pipeline removes the old entries, counts, adds the request and sets the
\* expiry, and the request goes on when the count was below
\* calls_per_minute and is answered 429 otherwise.  When Redis raises, the
\* request is let through.
dispatch ==
    /\ Len(responses) < MaxRequests
    /\ \E client_ip \in Clients, path \in Paths, redis \in {"up", "down"} :
          LET current_time     == time_s
              window_start     == current_time - window_size
              kept             == zremrangebyscore(zset_of(client_ip), window_start)
              current_requests == Cardinality(kept)
              answered(status) == Append(responses,
                                         [time |-> current_time, client_ip |-> client_ip,
                                          path |-> path, redis |-> redis, status |-> status])
          IN  IF path \in {"/health", "/metrics"}
              THEN /\ responses' = answered(200)
                   /\ UNCHANGED <<zsets, expires>>
              ELSE IF redis = "down"
              THEN /\ responses' = answered(200)
                   /\ UNCHANGED <<zsets, expires>>
              ELSE /\ zsets' = put(zsets, client_ip, zadd(kept, current_time))
                   /\ expires' = put(expires, client_ip, current_time + window_size)
                   /\ responses' = answered(IF current_requests < calls_per_minute
                                            THEN 200 ELSE 429)
    /\ UNCHANGED <<calls_per_minute, time_s>>
    /\ UNCHANGED <<batch_vars, task_vars, ml_vars, nlp_vars, call_vars, store_vars>>

InitRate ==
    /\ pending_logs = <<>>
    /\ threats = <<>>
    /\ BatchIdle
    /\ TaskIdle
    /\ MLIdle
    /\ NLPIdle
    /\ CallsIdle
    /\ StoreIdle
    /\ calls_per_minute \in 1..MaxLimit
    /\ time_s = 0
    /\ zsets = <<>>
    /\ expires = <<>>
    /\ responses = <<>>

NextRate ==
    \/ Clock
    \/ dispatch

SpecRate == InitRate /\ [][NextRate]_vars

\* ---------------------------------------------------------------------
\* _calculate_confidence on its own: the three dicts are drawn, the function
\* is applied to them.

\* most values under one key of a dict
MaxItems == 3

\* the dicts of one group: some of its keys, each with one to MaxItems values
SetDicts(keys) ==
    UNION {[chosen -> {1..n : n \in 1..MaxItems}] : chosen \in SUBSET keys}

ListDicts(keys) ==
    UNION {[chosen -> {[k \in 1..n |-> k] : n \in 1..MaxItems}] : chosen \in SUBSET keys}

\* a call of _calculate_confidence(iocs, entities, patterns)
calculate ==
    /\ conf_args # <<>>
    /\ confidence = <<>>
    /\ confidence' = <<calculate_confidence(conf_args[1].iocs, conf_args[1].entities,
                                            conf_args[1].patterns)>>
    /\ UNCHANGED <<threat_text, iocs, spacy_env, doc_ents, nlp, extraction, previous, runs,
                   conf_args>>
    /\ UNCHANGED <<batch_vars, task_vars, ml_vars, call_vars, store_vars, rate_vars>>

InitConfidence ==
    /\ pending_logs = <<>>
    /\ threats = <<>>
    /\ BatchIdle
    /\ TaskIdle
    /\ MLIdle
    /\ CallsIdle
    /\ StoreIdle
    /\ RateIdle
    /\ threat_text = <<>>
    /\ iocs = <<>>
    /\ spacy_env = "installed"
    /\ doc_ents = <<>>
    /\ nlp = "none"
    /\ extraction = <<>>
    /\ previous = <<>>
    /\ runs = 0
    /\ \E ioc_dict \in SetDicts({"ip", "domain"}),
          entity_dict \in SetDicts({"person", "org"}),
          pattern_dict \in ListDicts({"malware_families", "attack_vectors"}) :
          conf_args = <<[iocs |-> ioc_dict, entities |-> entity_dict, patterns |-> pattern_dict]>>
    /\ confidence = <<>>

NextConfidence ==
    \/ calculate

SpecConfidence == InitConfidence /\ [][NextConfidence]_vars

-----------------------------------------------------------------------------
\* Properties of the correlation engine.

\* the candidate a correlation refers to
ThreatById(id) == CHOOSE t \in {threats[k] : k \in 1..Len(threats)} : t.id = id

\* the write-backs made for one log event
UpdatesOf(id) == {u \in 1..Len(updates) : updates[u].log_entry_id = id}

\* the alerts raised for one log event
AlertsOf(id) == {a \in 1..Len(alerts) : alerts[a].log_entry.id = id}

\* C1: correlate_log returns a correlation only if the best candidate's score
\* is strictly greater than 0.7; otherwise it returns none.
C1_ReturnedOnlyAboveThreshold ==
    (pc = "returned" /\ correlation # <<>>) => FGt(correlation[1].score, F0_7)

\* C2: a correlation is written back to a log event only when the best score
\* is strictly greater than 0.7; with a best score of 0.7 or less, no
\* candidate or no log entry, nothing is written for that event.
C2_PersistedOnlyAboveThreshold ==
    /\ \A u \in 1..Len(updates) : FGt(updates[u].correlation.score, F0_7)
    /\ pc = "returned" =>
          (UpdatesOf(pending_logs[i].id) # {} =>
              /\ correlation # <<>>
              /\ FGt(correlation[1].score, F0_7)
              /\ \A u \in UpdatesOf(pending_logs[i].id) : updates[u].correlation = correlation[1])

\* C2 witness: correlate_log has returned a correlation it wrote back
C2_Witness ==
    /\ pc = "returned"
    /\ correlation # <<>>
    /\ UpdatesOf(pending_logs[i].id) # {}

IndicatorSet(f) == IF f.st = "set" THEN f.v ELSE {}

UrlList(f) == IF f.st = "set" THEN f.v ELSE <<>>

IpMatches(le, t) == le.source_ip \in IndicatorSet(t.ip_addresses)

DomainMatches(le, t) == le.domain \in IndicatorSet(t.domains)

UrlMatches(le, t) == \E k \in 1..Len(UrlList(t.urls)) : IsSubstring(UrlList(t.urls)[k], le.url)

HashMatches(le, t) == \E p \in IndicatorSet(t.file_hashes) : p[2] = le.file_hash

\* whole days elapsed since the threat was discovered
AgeInDays(t, at) ==
    LET d == CHOOSE x \in t.discovered_date : TRUE
    IN  CHOOSE n \in -2..60 : 24 * n <= at - d /\ at - d < 24 * (n + 1)

RecencyTerm(t, at) ==
    IF t.discovered_date = {} THEN F0_0
    ELSE IF AgeInDays(t, at) <= 7 THEN F0_1
    ELSE IF AgeInDays(t, at) <= 30 THEN F0_05
    ELSE F0_0

SeverityTerm(t) ==
    CASE t.severity = "critical" -> F0_2
      [] t.severity = "high"     -> F0_15
      [] t.severity = "medium"   -> F0_1
      [] t.severity = "low"      -> F0_05
      [] OTHER                   -> F0_0

\* the terms added in the order of the table; a term that does not apply adds nothing
Plus(applies, s, w) == IF applies THEN FAdd(s, w) ELSE s

TableScore(le, t, at) ==
    LET a == Plus(IpMatches(le, t), F0_0, F0_4)
        b == Plus(DomainMatches(le, t), a, F0_3)
        c == Plus(UrlMatches(le, t), b, F0_3)
        d == Plus(HashMatches(le, t), c, F0_5)
        e == Plus(RecencyTerm(t, at) # F0_0, d, RecencyTerm(t, at))
        f == Plus(SeverityTerm(t) # F0_0, e, SeverityTerm(t))
    IN  IF FGt(f, F1_0) THEN F1_0 ELSE f

\* C4: for a threat whose severity is critical, high, medium or low the
\* score is min(1.0, S), S being 0.4 for an IP match, 0.3 for a domain match,
\* 0.3 once for any URL substring match, 0.5 for a file hash match, 0.1 for
\* an age of at most 7 days or else 0.05 for at most 30 days, plus the
\* severity boost 0.2/0.15/0.1/0.05 (binary64 sums, age in whole days).
C4_ScoreIsClampedTableSum ==
    pc \in {"scoring", "returned", "failed"} /\ log_entry # <<>> =>
        \A k \in 1..Len(scored) :
            threats[k].severity \in {"critical", "high", "medium", "low"} =>
                scored[k].score = TableScore(log_entry[1], threats[k], scored[k].at)

\* C4 witness: a threat listing two URLs that both occur in the log URL has
\* been scored, with a hash match and an age of exactly 7 whole days
C4_Witness ==
    /\ pc = "scoring"
    /\ Len(scored) = 1
    /\ threats[1].severity = "medium"
    /\ Cardinality({k \in 1..Len(UrlList(threats[1].urls)) :
                        IsSubstring(UrlList(threats[1].urls)[k], log_entry[1].url)}) = 2
    /\ HashMatches(log_entry[1], threats[1])
    /\ threats[1].discovered_date = {-191}

\* C5: every score computed or returned lies in [0, 1], also when the IP,
\* domain, URL, hash, recency and severity terms all apply.
C5_ScoreWithinUnitInterval ==
    /\ \A k \in 1..Len(scored) : FLe(F0_0, scored[k].score) /\ FLe(scored[k].score, F1_0)
    /\ best_correlation # <<>> =>
          FLe(F0_0, best_correlation[1].score) /\ FLe(best_correlation[1].score, F1_0)
    /\ correlation # <<>> => FLe(F0_0, correlation[1].score) /\ FLe(correlation[1].score, F1_0)

\* C5 witness: all six terms applied to one candidate, whose score is 1.0
C5_Witness ==
    /\ pc = "returned"
    /\ correlation # <<>>
    /\ correlation[1].score = F1_0
    /\ IpMatches(log_entry[1], threats[1]) /\ DomainMatches(log_entry[1], threats[1])
    /\ UrlMatches(log_entry[1], threats[1]) /\ HashMatches(log_entry[1], threats[1])
    /\ threats[1].discovered_date = {-48}
    /\ threats[1].severity = "critical"

\* C6: a threat whose severity is unspecified (field missing, None or
\* 'unknown') gets a severity boost of exactly 0: its score is the clamped sum
\* of the other terms.
C6_UnspecifiedSeverityAddsNothing ==
    pc \in {"scoring", "returned", "failed"} /\ log_entry # <<>> =>
        \A k \in 1..Len(scored) :
            threats[k].severity \in {NoKey, None, "unknown"} =>
                scored[k].score = TableScore(log_entry[1], threats[k], scored[k].at)

\* the scores of the current correlate_log call, and the first candidate attaining their maximum
IsMaxScore(k) == \A m \in 1..Len(scored) : FLe(scored[m].score, scored[k].score)

FirstMax == CHOOSE k \in 1..Len(scored) :
                IsMaxScore(k) /\ \A m \in 1..(k - 1) : ~IsMaxScore(m)

TableType(le, t) ==
    CASE IpMatches(le, t)                                                -> "ip_match"
      [] ~IpMatches(le, t) /\ DomainMatches(le, t)                       -> "domain_match"
      [] ~IpMatches(le, t) /\ ~DomainMatches(le, t) /\ HashMatches(le, t) -> "hash_match"
      [] OTHER                                                           -> "pattern_match"

C8_TypeFollowsIndicatorPriority ==
    /\ best_correlation # <<>> /\ log_entry # <<>> /\ pc \in {"scoring", "returned"} =>
          best_correlation[1].correlation_type =
              TableType(log_entry[1], ThreatById(best_correlation[1].threat_id))
    /\ \A u \in 1..Len(updates) :
          updates[u].correlation.correlation_type =
              TableType(pending_logs[updates[u].log_entry_id],
                        ThreatById(updates[u].correlation.threat_id))

\* C8 witness: IP and domain both match, the threat is high and two days
\* old (score 0.95), and the result is tagged ip_match
C8_Witness ==
    /\ pc = "returned"
    /\ correlation # <<>>
    /\ IpMatches(log_entry[1], ThreatById(correlation[1].threat_id))
    /\ DomainMatches(log_entry[1], ThreatById(correlation[1].threat_id))
    /\ correlation[1].score = FAdd(FAdd(FAdd(F0_4, F0_3), F0_1), F0_15)
    /\ correlation[1].correlation_type = "ip_match"

\* C9: matched_indicators lists a descriptor of a signal (IP, domain, URL,
\* file hash) exactly when that signal's condition held and added its weight
\* to the score.
Listed(c, kind) == \E m \in 1..Len(c.matched_indicators) : c.matched_indicators[m][1] = kind

C9_IndicatorsMatchScoredSignals ==
    best_correlation # <<>> /\ log_entry # <<>> /\ pc \in {"scoring", "returned"} =>
        LET c  == best_correlation[1]
            le == log_entry[1]
            t  == ThreatById(c.threat_id)
        IN  /\ Listed(c, "IP") <=> IpMatches(le, t)
            /\ Listed(c, "Domain") <=> DomainMatches(le, t)
            /\ Listed(c, "URL") <=> UrlMatches(le, t)
            /\ Listed(c, "Hash") <=> HashMatches(le, t)

\* C10: in a batch run the alert sink is called for a pending log event
\* exactly when its correlation score is strictly greater than 0.8, and then
\* once; alerts_generated counts these calls and a score of exactly 0.8
\* raises no alert.
C10_AlertIffScoreAboveAlertThreshold ==
    /\ \A k \in 1..Len(handled) :
          Cardinality(AlertsOf(handled[k].log_id)) =
              IF handled[k].correlation # <<>> /\ FGt(handled[k].correlation[1].score, F0_8)
              THEN 1 ELSE 0
    /\ \A a \in 1..Len(alerts) :
          \E k \in 1..Len(handled) :
              /\ handled[k].log_id = alerts[a].log_entry.id
              /\ handled[k].correlation = <<alerts[a].correlation>>
    /\ alerts_generated = Len(alerts)
    /\ pc = "done" => result[1].alerts_generated = Len(alerts)

\* C10 witness: a finished run of two log events, one alerted with a score
\* above 0.8, the other correlated above 0.7 without an alert
C10_Witness ==
    /\ pc = "done"
    /\ Len(handled) = 2
    /\ Len(alerts) = 1
    /\ result[1].correlations_found = 2
    /\ result[1].alerts_generated = 1

\* exceptions raised while one pending log event is correlated
ItemErrors == {"TypeError", "log_entry_unavailable"}

\* exceptions raised because a list the whole run depends on is unavailable
SystemicErrors == {"pending_logs_unavailable", "threats_unavailable"}

\* C12: an exception raised while one pending log event is correlated does
\* not abort the batch: the run never ends as a failure because of it, and
\* goes on to return counts with logs_processed equal to the number of
\* pending events.
C12_ItemFailureDoesNotAbortBatch ==
    ~(pc = "failed" /\ error \in ItemErrors)

\* C13: when the pending-log list or the candidate threat list cannot be
\* obtained, process_pending_logs ends as a failure raised to its caller and
\* returns no counts result.
C13_SystemicFailureAbortsRun ==
    error \in SystemicErrors => pc = "failed" /\ result = <<>>

\* C13 witness: the candidate list is unavailable for the second pending log
\* event, after the first one was processed
C13_Witness ==
    /\ error = "threats_unavailable"
    /\ pc = "failed"
    /\ Len(pending_logs) = 2
    /\ Len(handled) = 1
    /\ result = <<>>

\* a pending log event for which a run of the batch raises an alert: some
\* candidate scores above the alert threshold and no candidate is malformed
Qualifies(log) ==
    /\ \A k \in 1..Len(threats) : ~CorrelationRaises(threats[k])
    /\ \E k \in 1..Len(threats) :
          FGt(calculate_correlation_score(log, threats[k], now), alert_threshold)

\* C11: when a dispatch of process_correlations has ended, retries included,
\* the alert sink has been called exactly once for every pending log event
\* with a qualifying correlation, and never for another event.
C11_AlertOncePerQualifyingCorrelation ==
    (task = "process_correlations" /\ task_pc \in {"succeeded", "failed"}) =>
        \A n \in 1..Len(pending_logs) :
            Cardinality(AlertsOf(pending_logs[n].id)) =
                IF Qualifies(pending_logs[n]) THEN 1 ELSE 0

\* the retry requests a dispatch has made so far all carry these arguments
RequestsCarry(countdown, max_retries) ==
    \A r \in 1..Len(retry_requests) :
        /\ retry_requests[r].countdown = countdown
        /\ retry_requests[r].max_retries = max_retries
        /\ retry_requests[r].retries = r

\* one retry request per failed attempt, and a final failure only at the limit
OneRequestPerFailure(max_retries) ==
    /\ task_pc = "running" => Len(retry_requests) = attempts - 1
    /\ task_pc = "succeeded" => Len(retry_requests) = attempts - 1
    /\ task_pc = "retry_pending" => Len(retry_requests) = attempts
    /\ task_pc = "failed" => Len(retry_requests) = max_retries /\ attempts = max_retries + 1

\* C14: process_correlations retries with a countdown of 60 seconds and at
\* most 3 retries, so a dispatch has at most 4 attempts; train_models retries
\* with 300 seconds and at most 2 retries, so at most 3 attempts; every failed
\* attempt below the limit requests exactly one retry and the attempt at the
\* limit fails for good.
C14_RetryPolicy ==
    /\ task = "process_correlations" =>
          /\ attempts <= 4
          /\ RequestsCarry(60, 3)
          /\ OneRequestPerFailure(3)
    /\ task = "train_models" =>
          /\ attempts <= 3
          /\ RequestsCarry(300, 2)
          /\ OneRequestPerFailure(2)

\* C14 witness: a dispatch of process_correlations that failed for good on
\* its fourth attempt after three retry requests
C14_Witness ==
    /\ task = "process_correlations"
    /\ task_pc = "failed"
    /\ attempts = 4
    /\ Len(retry_requests) = 3

\* C15: an attempt of process_correlations whose call of the correlator
\* raised nothing returns the counts and requests no retry.
C15_CountsReturnedWithoutRetry ==
    (task = "process_correlations" /\ batch_called > 0) =>
        /\ task_pc = "succeeded"
        /\ task_result # <<>>
        /\ retry_requests = <<>>

\* the last call was a successful call of the named operation
Succeeded(call) ==
    /\ ml_out # <<>>
    /\ ml_out[1].call = call
    /\ ml_out[1].status = "ok"

\* C16: for every raw output of the regressor, negative ones and ones above
\* 10 included, the risk_score score_threat returns lies in [0, 10] (it is
\* the raw output cut off at 0 and at 10) and the risk level is the band of
\* that returned score.
C16_ScoreClampedBeforeBanding ==
    Succeeded("score_threat") =>
        LET raw == ml_out[1].raw
            res == ml_out[1].result[1]
        IN  /\ res.risk_score >= 0
            /\ res.risk_score <= 10000
            /\ res.risk_score = (IF raw < 0 THEN 0 ELSE IF raw > 10000 THEN 10000 ELSE raw)
            /\ res.risk_level = get_risk_level(res.risk_score)

\* C16 witness: a raw output of 12.0 returned as 10.0, critical
C16_Witness ==
    /\ Succeeded("score_threat")
    /\ ml_out[1].raw = 12000
    /\ ml_out[1].result[1].risk_score = 10000
    /\ ml_out[1].result[1].risk_level = "critical"

\* C17: a score of 8.0 or more is critical, one in [6.0, 8.0) high, one in
\* [4.0, 6.0) medium, one in [2.0, 4.0) low and one below 2.0 minimal; each
\* boundary value belongs to the higher band.
C17_RiskLevelBands ==
    Succeeded("score_threat") =>
        LET s     == ml_out[1].result[1].risk_score
            level == ml_out[1].result[1].risk_level
        IN  /\ level = "critical" <=> s >= 8000
            /\ level = "high" <=> (6000 <= s /\ s < 8000)
            /\ level = "medium" <=> (4000 <= s /\ s < 6000)
            /\ level = "low" <=> (2000 <= s /\ s < 4000)
            /\ level = "minimal" <=> s < 2000

\* C17 witness: a score of exactly 8.0 is banded critical
C17_Witness ==
    /\ Succeeded("score_threat")
    /\ ml_out[1].result[1].risk_score = 8000
    /\ ml_out[1].result[1].risk_level = "critical"

\* C18: a call of score_threat or classify_threat made with no model in
\* memory and no model file on disk fails with an error and returns no
\* result.
C18_MissingModelIsAnError ==
    (/\ ml_out # <<>>
     /\ ml_out[1].call \in {"score_threat", "classify_threat"}
     /\ ml_out[1].pre_model = "none"
     /\ ~ml_out[1].pre_disk) =>
        /\ ml_out[1].status = "error"
        /\ ml_out[1].result = <<>>

\* C18 witness: classify_threat called with no model anywhere has failed
C18_Witness ==
    /\ ml_out # <<>>
    /\ ml_out[1].call = "classify_threat"
    /\ ml_out[1].pre_model = "none"
    /\ ~ml_out[1].pre_disk
    /\ ml_out[1].status = "error"
    /\ classifier_model = "none"

\* the closed taxonomy
Taxonomy == {"malware", "vulnerability", "phishing", "botnet", "ransomware", "apt", "ddos",
             "other"}

\* C19: a successful classify_threat result names one of the 8 taxonomy
\* values as predicted_category, has a probabilities map with one entry for
\* each of the 8 categories, and a confidence_score equal to the largest
\* probability of the distribution.
C19_ClassificationResultShape ==
    Succeeded("classify_threat") =>
        LET res == ml_out[1].result[1]
        IN  /\ res.predicted_category \in Taxonomy
            /\ Cardinality(Taxonomy) = 8
            /\ DOMAIN res.probabilities = Taxonomy
            /\ \E cat \in Taxonomy : res.probabilities[cat] = res.confidence_score
            /\ \A cat \in Taxonomy : res.probabilities[cat] <= res.confidence_score

\* C19 witness: two classes tie with one vote each, the first of them in the
\* order of classes_ is predicted and the confidence is that one vote
C19_Witness ==
    /\ Succeeded("classify_threat")
    /\ ml_out[1].raw = <<0, 1, 0, 0, 1, 0, 0, 0>>
    /\ ml_out[1].result[1].predicted_category = "botnet"
    /\ ml_out[1].result[1].confidence_score = 1

\* the IP list of the extracted IOCs
IpList == IF "ip" \in DOMAIN iocs[1] THEN iocs[1]["ip"] ELSE {}

\* the value of a string of decimal digits
RECURSIVE DecimalValue(_)
DecimalValue(s) ==
    IF Len(s) = 0
    THEN 0
    ELSE 10 * DecimalValue(SubSeq(s, 1, Len(s) - 1))
         + ((CHOOSE k \in 1..10 : SubSeq("0123456789", k, k) = Char(s, Len(s))) - 1)

\* the four octets of a dotted quad
Octets(m) ==
    LET dots == {k \in 1..Len(m) : Char(m, k) = "."}
        d1   == CHOOSE k \in dots : \A l \in dots : k <= l
        d3   == CHOOSE k \in dots : \A l \in dots : l <= k
        d2   == CHOOSE k \in dots : k # d1 /\ k # d3
    IN  <<SubSeq(m, 1, d1 - 1), SubSeq(m, d1 + 1, d2 - 1), SubSeq(m, d2 + 1, d3 - 1),
          SubSeq(m, d3 + 1, Len(m))>>

\* a dotted quad is an IPv4 address when every octet is at most 255 and has
\* no leading zero
IsIPv4(m) ==
    \A k \in 1..4 :
        /\ DecimalValue(Octets(m)[k]) <= 255
        /\ Len(Octets(m)[k]) > 1 => Char(Octets(m)[k], 1) # "0"

\* an IPv4 address in 10.0.0.0/8, 172.16.0.0/12, 192.168.0.0/16 or 127.0.0.0/8
InPrivateRange(m) ==
    /\ IsIPv4(m)
    /\ LET a == DecimalValue(Octets(m)[1])
           b == DecimalValue(Octets(m)[2])
       IN  \/ a = 10
           \/ a = 127
           \/ a = 172 /\ b >= 16 /\ b <= 31
           \/ a = 192 /\ b = 168

Matched == LET fa == findall(threat_text, 1) IN {fa[k] : k \in 1..Len(fa)}

\* C26: the filter discards a matched IPv4 address only if it lies in
\* 10.0.0.0/8, 172.16.0.0/12, 192.168.0.0/16 or 127.0.0.0/8; every matched
\* address outside these ranges (172.32.0.1, 203.0.113.42) is kept in the IP
\* list.
C26_OnlyPrivateAddressesDiscarded ==
    iocs # <<>> =>
        \A m \in Matched : (IsIPv4(m) /\ ~InPrivateRange(m)) => m \in IpList

\* C27: in every classify_threat result the probability listed under
\* predicted_category equals confidence_score: the predicted category is the
\* arg-max of the returned distribution.
C27_PredictedCategoryIsArgMax ==
    Succeeded("classify_threat") =>
        LET res == ml_out[1].result[1]
        IN  /\ res.probabilities[res.predicted_category] = res.confidence_score
            /\ \A cat \in DOMAIN res.probabilities :
                   res.probabilities[cat] <= res.probabilities[res.predicted_category]

\* C30: a call of RiskScorer.train or ThreatClassifier.train that raises
\* leaves the instance's in-memory model as it was before the call.
C30_FailedTrainLeavesModel ==
    [][(/\ ml_out' # <<>>
        /\ ml_out' # ml_out
        /\ ml_out'[1].call \in {"RiskScorer.train", "ThreatClassifier.train"}
        /\ ml_out'[1].status = "error") =>
           (scorer_model' = scorer_model /\ classifier_model' = classifier_model)]_vars

\* C24: no step of correlate_log or process_pending_logs changes a field of
\* a threat or an observed field of a log event; write-backs and alerts are
\* only added, never changed or removed.
C24_ThreatsAndLogsReadOnly ==
    [][/\ threats' = threats
       /\ pending_logs' = pending_logs
       /\ Len(updates') >= Len(updates)
       /\ SubSeq(updates', 1, Len(updates)) = updates
       /\ Len(alerts') >= Len(alerts)
       /\ SubSeq(alerts', 1, Len(alerts)) = alerts]_vars

\* C24 witness: a finished run that attached a correlation and raised an
\* alert, with the rows it worked on still in place
C24_Witness ==
    /\ pc = "done"
    /\ updates # <<>>
    /\ alerts # <<>>
    /\ \E n \in 1..Len(pending_logs) : pending_logs[n].domain = D1

\* the counts the claim names i, e and p
CountI == SumSets(conf_args[1].iocs)
CountE == SumSets(conf_args[1].entities)
CountP == SumLists(conf_args[1].patterns)

\* 150 times 0.4*min(1, i/5) + 0.3*min(1, e/5) + 0.3*min(1, p/3), in exact
\* arithmetic
Exact150 ==
    12 * (IF CountI < 5 THEN CountI ELSE 5) + 9 * (IF CountE < 5 THEN CountE ELSE 5)
        + 15 * (IF CountP < 3 THEN CountP ELSE 3)

\* C21: for an extraction with i IOC values, e entity values and p
\* attack-pattern values, counted over all subtypes, the confidence equals
\* 0.4*min(1, i/5) + 0.3*min(1, e/5) + 0.3*min(1, p/3) (to within 2^-19, the
\* rounding of binary64 being far below that), lies in [0, 1], and is exactly
\* 0 when i + e + p = 0.
C21_ConfidenceFormula ==
    confidence # <<>> =>
        LET q == confidence[1].hi \div 256
        IN  /\ 150 * q <= Exact150 * 2^20 + 150
            /\ 150 * (q + 1) >= Exact150 * 2^20 - 150
            /\ FLe(F0_0, confidence[1])
            /\ FLe(confidence[1], F1_0)
            /\ (CountI + CountE + CountP = 0 => confidence[1] = F0_0)

\* C21 witness: every group is saturated over two subtypes and the confidence
\* is 1.0
C21_Witness ==
    /\ confidence = <<F1_0>>
    /\ CountI > 5
    /\ CountE = 5
    /\ CountP > 3
    /\ DOMAIN conf_args[1].iocs = {"ip", "domain"}

\* C22: running extract_from_threat twice on the same threat text gives
\* identical results: the same values per IOC type, per entity type and per
\* attack-pattern category, and the same confidence; nothing of the first run
\* is merged into or appended to the second.
C22_SecondRunEqualsFirst ==
    previous # <<>> => extraction = previous

\* C22 witness: a text with a public address and an attack phrase has been
\* through both runs
C22_Witness ==
    /\ previous # <<>>
    /\ runs = 2
    /\ "ip" \in DOMAIN extraction[1].iocs
    /\ "attack_vectors" \in DOMAIN extraction[1].attack_patterns
    /\ extraction = previous

\* C23: when loading the language model fails during extract_from_threat, no
\* error propagates and the returned result is empty (no IOCs, no entities, no
\* attack patterns) with confidence exactly 0.
C23_LoadFailureGivesEmptyResult ==
    (spacy_env # "installed" /\ extraction # <<>>) =>
        extraction[1] = [entities |-> <<>>, iocs |-> <<>>, attack_patterns |-> <<>>,
                         confidence |-> F0_0]

\* C29: across any interleaving of concurrent score_threat (or
\* classify_threat) calls on one shared instance, the persisted model is
\* loaded from disk at most once and then reused, and every call predicts
\* with a fully loaded model.
C29_ModelLoadedAtMostOnce ==
    calls # <<>> =>
        /\ \A method \in DOMAIN loads : loads[method] <= 1
        /\ \A t \in DOMAIN calls : calls[t].pc = "done" => calls[t].predicted_with = "fitted"

\* C25: after any sequence of create_threat and update_threat operations
\* every stored threat has a CVSS score that is null or within [0, 10] and a
\* severity that is unset or one of critical, high, medium, low, unknown.
C25_StoredThreatsValid ==
    \A k \in 1..Len(db_threats) :
        /\ db_threats[k].cvss_score # <<>> =>
              (db_threats[k].cvss_score[1] >= 0 /\ db_threats[k].cvss_score[1] <= 100)
        /\ db_threats[k].severity # <<>> =>
              db_threats[k].severity[1] \in {"critical", "high", "medium", "low", "unknown"}

\* the requests of a client to non-exempt paths that were let through at a
\* time within the 60 seconds that start at time w
LetThrough(client_ip, w) ==
    {k \in 1..Len(responses) :
        /\ responses[k].client_ip = client_ip
        /\ responses[k].path \notin {"/health", "/metrics"}
        /\ responses[k].status = 200
        /\ responses[k].time >= w
        /\ responses[k].time < w + window_size}

\* C28: while Redis is available, for every client IP and every 60-second
\* window the middleware lets through at most calls_per_minute requests to
\* non-exempt paths, however they are spaced within the window, several in
\* the same second included; the further ones are answered 429.
C28_AtMostLimitPerWindow ==
    (\A k \in 1..Len(responses) : responses[k].redis = "up") =>
        \A client_ip \in Clients : \A k \in 1..Len(responses) :
            Cardinality(LetThrough(client_ip, responses[k].time)) <= calls_per_minute

====
